---- MODULE Spec2Model ----
(***************************************************************************)
(* The Stockfighter API client (package stockfighter).                     *)
(*                                                                         *)
(* A Client holds an API key and an http.Client.  Each of its ten methods  *)
(* trims and validates its arguments, issues one HTTP request, classifies  *)
(* the status code, decodes the JSON envelope and returns a value or an    *)
(* error.  The state below is the client plus the record of the call that  *)
(* ran last: its arguments, the requests the transport saw, the response,  *)
(* whether the body was read, the decoded envelope and the outcome.        *)
(*                                                                         *)
(* Go strings that the code computes on (venue, stock, account, the        *)
(* decimal order id) are sequences of one-character strings; strings that  *)
(* are only copied are TLA+ strings.  A pointer or slice result is a       *)
(* sequence of length 0 (nil) or 1.                                        *)
(***************************************************************************)
EXTENDS Integers, Sequences, FiniteSets, TLC

VARIABLES apiKey, pc, op, args, requests, resp, bodyRead, bodyClosed,
          respData, outcome

vars == <<apiKey, pc, op, args, requests, resp, bodyRead, bodyClosed,
          respData, outcome>>

(***************************************************************************)
(* Bounds and input sets                                                   *)
(***************************************************************************)
\* longest list (stocks, bids, asks, fills, orders) in a response body
MaxList == 2

SeqsUpTo(S, n) == UNION {[1..k -> S] : k \in 0..n}

ApiKeys == {"KEY", "INVALID_API_KEY"}

\* "V\nX" keeps its interior control character after trimming
VenueArgs == {<<>>, <<" ">>, <<"V">>, <<" ", "V", "\t">>, <<"V", "\n", "X">>}
StockArgs == {<<>>, <<" ">>, <<"S">>, <<" ", "S", " ">>}
AccountArgs == {<<>>, <<"\t">>, <<"A">>, <<"A", " ">>}
OrderIDs == {0, 7, 12345, -1}
OrderParams ==
    {[price |-> 5264, quantity |-> 4625, direction |-> "buy", orderType |-> "limit"],
     [price |-> 5264, quantity |-> 0, direction |-> "buy", orderType |-> "limit"],
     [price |-> 5264, quantity |-> 5264, direction |-> "invaliddirection", orderType |-> "limit"],
     [price |-> 5264, quantity |-> 5264, direction |-> "sell", orderType |-> "invalidtype"]}

StatusCodes == {200, 400, 401, 404, 500}

(***************************************************************************)
(* Response bodies.  A body is empty, text that is not JSON, a JSON array, *)
(* or a JSON object given by its members (key -> value).                   *)
(***************************************************************************)
EmptyBody == [kind |-> "empty"]
TextBody == [kind |-> "text"]
ArrayBody == [kind |-> "array"]
Json(m) == [kind |-> "object", members |-> m]

CommonBodies ==
    {EmptyBody, TextBody, ArrayBody,
     Json([ok |-> FALSE, error |-> "boom"]),
     Json([ok |-> FALSE]),
     Json([error |-> "boom"]),
     Json([ok |-> TRUE]),
     Json([ok |-> TRUE, error |-> "ignored"])}

WireStocks ==
    {[name |-> "Foreign Owned Occluded Bridge", symbol |-> "FOOBAR"],
     [name |-> "Other", symbol |-> "OTH"]}
StocksBodies ==
    {Json([ok |-> TRUE, symbols |-> s]) : s \in SeqsUpTo(WireStocks, MaxList)}

WireEntries ==
    {[price |-> 5200, qty |-> 1, isBuy |-> TRUE],
     [price |-> 5300, qty |-> 2, isBuy |-> FALSE]}
OrderbookBodies ==
    {Json([ok |-> TRUE, venue |-> "TESTEX", symbol |-> "FOOBAR",
           bids |-> b, asks |-> a, ts |-> "2015-12-04T09:02:16Z"]) :
        b \in SeqsUpTo(WireEntries, MaxList), a \in SeqsUpTo(WireEntries, MaxList)}

WireFills ==
    {[price |-> 5050, qty |-> 50, ts |-> "2015-07-05T22:16:18Z"],
     [price |-> 5100, qty |-> 30, ts |-> "2015-07-05T22:16:19Z"]}
WireOrder(f, o) ==
    [ok |-> TRUE, symbol |-> "FOOBAR", venue |-> "TESTEX", direction |-> "buy",
     originalQty |-> 4625, qty |-> 4545, price |-> 5264, orderType |-> "limit",
     id |-> 12345, account |-> "EXB123456", ts |-> "2015-07-05T22:16:17Z",
     fills |-> f, totalFilled |-> 80, open |-> o]
OrderBodies ==
    {Json(WireOrder(f, o)) : f \in SeqsUpTo(WireFills, MaxList), o \in BOOLEAN}

QuoteBodies ==
    {Json([ok |-> TRUE, symbol |-> "FOOBAR", venue |-> "TESTEX",
           bid |-> 5100, ask |-> 5125, bidSize |-> 392, askSize |-> 711,
           bidDepth |-> 2748, askDepth |-> 2237, last |-> 5120, lastSize |-> 52,
           lastTrade |-> "2015-07-13T05:38:17Z", quoteTime |-> "2015-07-13T05:38:18Z"]),
     Json([ok |-> TRUE, symbol |-> "FOOBAR", venue |-> "TESTEX",
           bid |-> 1, bidSize |-> 2, bidDepth |-> 3,
           quoteTime |-> "2015-07-13T05:38:19Z"])}

\* the elements of an orders list, keyed as the OrderStatus struct names them
WireListOrders ==
    {[direction |-> "buy", originalQty |-> 85, qty |-> 40, price |-> 993,
      type |-> "immediate-or-cancel", id |-> 1, account |-> "FOO123",
      ts |-> "2015-08-10T16:10:32Z", fills |-> <<[price |-> 366, qty |-> 45,
      ts |-> "2015-08-10T16:10:33Z"]>>, totalFilled |-> 45, open |-> TRUE],
     [direction |-> "sell", originalQty |-> 10, qty |-> 0, price |-> 5,
      type |-> "limit", id |-> 2, account |-> "FOO123",
      ts |-> "2015-08-10T16:10:34Z", fills |-> <<>>, totalFilled |-> 10,
      open |-> FALSE]}
OrdersBodies ==
    {Json([ok |-> TRUE, venue |-> "TESTEX", orders |-> s]) :
        s \in SeqsUpTo(WireListOrders, MaxList)}

\* what the transport hands back to httpClient.Get / httpClient.Do
NoResp == [got |-> "none"]
TransportErrors == {[got |-> "error", cause |-> "connection refused"]}
\* the object m without its member key
Without(m, key) == [k \in DOMAIN m \ {key} |-> m[k]]
\* the same bodies sent without their ok member
OkAbsent(bodies) == {Json(Without(b.members, "ok")) : b \in bodies}
Responses(bodies) ==
    {[got |-> "response", status |-> s, body |-> b] :
        s \in StatusCodes, b \in CommonBodies \cup bodies \cup OkAbsent(bodies)}
TransportOutcomes(bodies) == TransportErrors \cup Responses(bodies)

(***************************************************************************)
(* Strings                                                                 *)
(***************************************************************************)
apiBaseURL == "https://api.stockfighter.io/ob/api"

IsSpace(c) == c \in {" ", "\t", "\n", "\r", "\f"}

RECURSIVE TrimLeft(_)
TrimLeft(s) ==
    IF s # <<>> /\ IsSpace(Head(s)) THEN TrimLeft(Tail(s)) ELSE s

RECURSIVE TrimRight(_)
TrimRight(s) ==
    IF s # <<>> /\ IsSpace(s[Len(s)]) THEN TrimRight(SubSeq(s, 1, Len(s) - 1)) ELSE s

\* TrimSpace that leaves the trailing white space in place
TrimSpace_LeftOnly(s) == TrimLeft(s)

\* strings.TrimSpace: drops leading and trailing white space, keeps the rest
TrimSpace(s) == TrimRight(TrimLeft(s))

DigitChars == <<"0", "1", "2", "3", "4", "5", "6", "7", "8", "9">>

RECURSIVE FormatNat(_)
FormatNat(n) ==
    IF n < 10 THEN <<DigitChars[n + 1]>>
    ELSE FormatNat(n \div 10) \o <<DigitChars[(n % 10) + 1]>>

\* strconv.FormatInt(n, 10)
FormatInt(n) == IF n < 0 THEN <<"-">> \o FormatNat(0 - n) ELSE FormatNat(n)

(***************************************************************************)
(* Errors                                                                  *)
(***************************************************************************)
NilErr == [type |-> "nil"]
ErrorAPITimeout == [type |-> "ErrorAPITimeout"]
ErrorUnauthorized == [type |-> "ErrorUnauthorized"]
ErrorVenueNotFound(venue) == [type |-> "ErrorVenueNotFound", VenueSymbol |-> venue]
ErrorStockNotFound(venue, stock) ==
    [type |-> "ErrorStockNotFound", VenueSymbol |-> venue, StockSymbol |-> stock]
\* ErrorsNew that swallows the envelope's error
ErrorsNew_Swallowed(text) == NilErr
\* errors.New(text)
ErrorsNew(text) == [type |-> "errorString", s |-> text]
\* fmt.Errorf("Invalid <what>: %v", v), the value the handlers panic with
InvalidSymbol(what, v) == [type |-> "errorString", s |-> what, v |-> v]
\* TransportError that takes a transport failure for the venue's timeout
TransportError_Classified(t) == ErrorAPITimeout

\* the error httpClient.Get / httpClient.Do returns when the transport fails
TransportError(t) == [type |-> "url.Error", cause |-> t.cause]
\* the error http.NewRequest returns when the URL does not parse
ParseError == [type |-> "url.Error", cause |-> "parse"]
\* the errors decoder.Decode returns
DecodeError(why) == [type |-> "json", cause |-> why]

(***************************************************************************)
(* Outcomes of a call                                                      *)
(***************************************************************************)
NoOutcome == [kind |-> "none"]
Return(value, err) == [kind |-> "return", value |-> value, err |-> err]
Panic(v) == [kind |-> "panic", value |-> v]
\* req.Header = ... on the nil request a failed http.NewRequest returns
NilDereference == [type |-> "runtime.Error", s |-> "nil pointer dereference"]

Frame(reqs, t, read, data, out) ==
    [requests |-> reqs, resp |-> t, bodyRead |-> read,
     bodyClosed |-> (t.got = "response"), respData |-> data, outcome |-> out]

(***************************************************************************)
(* Requests                                                                *)
(***************************************************************************)
URL(route, params) == [base |-> apiBaseURL, route |-> route, params |-> params]

IsCTL(c) == c \in {"\t", "\n", "\r", "\f"}
HasCTL(s) == \E i \in 1..Len(s) : IsCTL(s[i])

NoHeader == <<>>
NoBody == <<>>

\* http.NewRequest: fails when the URL does not parse, else a request with
\* no headers set
NewRequest(method, url, body) ==
    IF \E k \in DOMAIN url.params : HasCTL(url.params[k])
    THEN [err |-> ParseError, req |-> <<>>]
    ELSE [err |-> NilErr,
          req |-> <<[method |-> method, url |-> url, header |-> NoHeader, body |-> body]>>]

(***************************************************************************)
(* JSON decoding (encoding/json into the structs of types.go): a member    *)
(* that is absent leaves the field at its zero value, other members are    *)
(* ignored.                                                                *)
(***************************************************************************)
Member(m, key, zero) == IF key \in DOMAIN m THEN m[key] ELSE zero

\* time.Time as decoded from an RFC 3339 string
Time(s) == [rfc3339 |-> s]
ZeroTime == Time("0001-01-01T00:00:00Z")
MemberTime(m, key) == IF key \in DOMAIN m THEN Time(m[key]) ELSE ZeroTime

\* json.NewDecoder(resp.Body).Decode(&respData)
\* Decode that takes the end of an empty body for success
Decode_IgnoreEOF(body, data) ==
    CASE body.kind = "empty" -> [err |-> NilErr, data |-> data]
      [] body.kind = "text" -> [err |-> DecodeError("SyntaxError"), data |-> <<>>]
      [] body.kind = "array" -> [err |-> DecodeError("UnmarshalTypeError"), data |-> <<>>]
      [] body.kind = "object" -> [err |-> NilErr, data |-> data]

\* data is what the target struct holds once the members of an object body
\* are stored into it
Decode(body, data) ==
    CASE body.kind = "empty" -> [err |-> DecodeError("EOF"), data |-> <<>>]
      [] body.kind = "text" -> [err |-> DecodeError("SyntaxError"), data |-> <<>>]
      [] body.kind = "array" -> [err |-> DecodeError("UnmarshalTypeError"), data |-> <<>>]
      [] body.kind = "object" -> [err |-> NilErr, data |-> data]

\* the members of a JSON object body (none for any other body)
Members(body) == IF body.kind = "object" THEN body.members ELSE <<>>

\* apiRespHeartbeat with the Error field tagged "message"
apiRespHeartbeat_WrongTag(m) ==
    [OK |-> Member(m, "ok", FALSE), Error |-> Member(m, "message", "")]

apiRespHeartbeat(m) ==
    [OK |-> Member(m, "ok", FALSE), Error |-> Member(m, "error", "")]

StockInfo(m) ==
    [Name |-> Member(m, "name", ""), Symbol |-> Member(m, "symbol", "")]

\* []StockInfo
StockInfos(s) == [i \in 1..Len(s) |-> StockInfo(s[i])]

OrderbookEntry(m) ==
    [Price |-> Member(m, "price", 0), Quantity |-> Member(m, "qty", 0),
     IsBuy |-> Member(m, "isBuy", FALSE)]

\* []OrderbookEntry
OrderbookEntries(s) == [i \in 1..Len(s) |-> OrderbookEntry(s[i])]

OrderFillInfo(m) ==
    [Price |-> Member(m, "price", 0), Quantity |-> Member(m, "qty", 0),
     Timestamp |-> MemberTime(m, "ts")]

\* []OrderFillInfo
OrderFillInfos(s) == [i \in 1..Len(s) |-> OrderFillInfo(s[i])]

OrderStatus(m) ==
    [Direction |-> Member(m, "direction", ""),
     OriginalQuantity |-> Member(m, "originalQty", 0),
     Quantity |-> Member(m, "qty", 0),
     Price |-> Member(m, "price", 0),
     OrderType |-> Member(m, "type", ""),
     OrderID |-> Member(m, "id", 0),
     Account |-> Member(m, "account", ""),
     Timestamp |-> MemberTime(m, "ts"),
     Fills |-> OrderFillInfos(Member(m, "fills", <<>>)),
     TotalFilled |-> Member(m, "totalFilled", 0),
     Open |-> Member(m, "open", FALSE)]

\* the Orders slice: types.go names its element type Order, the handlers
\* return it as []OrderStatus
OrderStatuses(s) == [i \in 1..Len(s) |-> OrderStatus(s[i])]

\* apiRespStocks whose OK field stands at true when ok is absent
apiRespStocks_OkDefaultsTrue(m) ==
    [OK |-> Member(m, "ok", TRUE), Error |-> Member(m, "error", ""),
     Stocks |-> StockInfos(Member(m, "symbols", <<>>))]

apiRespStocks(m) ==
    [OK |-> Member(m, "ok", FALSE), Error |-> Member(m, "error", ""),
     Stocks |-> StockInfos(Member(m, "symbols", <<>>))]

apiRespStockOrderbook(m) ==
    [OK |-> Member(m, "ok", FALSE), Error |-> Member(m, "error", ""),
     VenueSymbol |-> Member(m, "venue", ""),
     StockSymbol |-> Member(m, "symbol", ""),
     Bids |-> OrderbookEntries(Member(m, "bids", <<>>)),
     Asks |-> OrderbookEntries(Member(m, "asks", <<>>)),
     Timestamp |-> MemberTime(m, "ts")]

apiRespNewStockOrder(m) ==
    [OK |-> Member(m, "ok", FALSE), Error |-> Member(m, "error", ""),
     VenueSymbol |-> Member(m, "venue", ""),
     StockSymbol |-> Member(m, "symbol", ""),
     Direction |-> Member(m, "direction", ""),
     OriginalQuantity |-> Member(m, "originalQty", 0),
     Quantity |-> Member(m, "qty", 0),
     Price |-> Member(m, "price", 0),
     OrderType |-> Member(m, "orderType", ""),
     OrderID |-> Member(m, "id", 0),
     Account |-> Member(m, "account", ""),
     Timestamp |-> MemberTime(m, "ts"),
     Fills |-> OrderFillInfos(Member(m, "fills", <<>>)),
     TotalFilled |-> Member(m, "totalFilled", 0),
     Open |-> Member(m, "open", FALSE)]

apiRespStockQuote(m) ==
    [OK |-> Member(m, "ok", FALSE), Error |-> Member(m, "error", ""),
     VenueSymbol |-> Member(m, "venue", ""),
     StockSymbol |-> Member(m, "symbol", ""),
     BidPrice |-> Member(m, "bid", 0),
     BidSize |-> Member(m, "bidSize", 0),
     BidDepth |-> Member(m, "bidDepth", 0),
     AskPrice |-> Member(m, "ask", 0),
     AskSize |-> Member(m, "askSize", 0),
     AskDepth |-> Member(m, "askDepth", 0),
     LastPrice |-> Member(m, "last", 0),
     LastSize |-> Member(m, "lastSize", 0),
     LastTradeTime |-> MemberTime(m, "lastTrade"),
     QuoteTime |-> MemberTime(m, "quoteTime")]

apiRespStockOrderStatus(m) ==
    [OK |-> Member(m, "ok", FALSE), Error |-> Member(m, "error", ""),
     VenueSymbol |-> Member(m, "venue", ""),
     StockSymbol |-> Member(m, "symbol", ""),
     Direction |-> Member(m, "direction", ""),
     OriginalQuantity |-> Member(m, "originalQty", 0),
     Quantity |-> Member(m, "qty", 0),
     Price |-> Member(m, "price", 0),
     OrderType |-> Member(m, "orderType", ""),
     OrderID |-> Member(m, "id", 0),
     Account |-> Member(m, "account", ""),
     Timestamp |-> MemberTime(m, "ts"),
     Fills |-> OrderFillInfos(Member(m, "fills", <<>>)),
     TotalFilled |-> Member(m, "totalFilled", 0),
     Open |-> Member(m, "open", FALSE)]

apiRespAllOrdersStatus(m) ==
    [OK |-> Member(m, "ok", FALSE), Error |-> Member(m, "error", ""),
     VenueSymbol |-> Member(m, "venue", ""),
     Orders |-> OrderStatuses(Member(m, "orders", <<>>))]

(***************************************************************************)
(* The client                                                              *)
(***************************************************************************)
\* NewClient(apiKey): no call has run yet
Init ==
    /\ apiKey \in ApiKeys
    /\ pc = "ready"
    /\ op = "none"
    /\ args = <<>>
    /\ requests = <<>>
    /\ resp = NoResp
    /\ bodyRead = FALSE
    /\ bodyClosed = FALSE
    /\ respData = <<>>
    /\ outcome = NoOutcome

\* a method ran to its end: the call's record replaces the previous one
Finish(name, a, f) ==
    /\ pc' = IF f.outcome.kind = "panic" THEN "panicked" ELSE "returned"
    /\ op' = name
    /\ args' = a
    /\ requests' = f.requests
    /\ resp' = f.resp
    /\ bodyRead' = f.bodyRead
    /\ bodyClosed' = f.bodyClosed
    /\ respData' = f.respData
    /\ outcome' = f.outcome
    /\ UNCHANGED apiKey

\* httpClient.Get(url): a GET request with no headers of the caller's
Get(url) == NewRequest("GET", url, NoBody)

PingCall(t) ==
    LET r == Get(URL("/heartbeat", <<>>)) IN
    IF r.err # NilErr THEN Frame(<<>>, NoResp, FALSE, <<>>, Return(<<>>, r.err))
    ELSE IF t.got = "error" THEN Frame(r.req, t, FALSE, <<>>, Return(<<>>, TransportError(t)))
    ELSE LET dec == Decode(t.body, apiRespHeartbeat(Members(t.body))) IN
         IF dec.err # NilErr THEN Frame(r.req, t, TRUE, <<>>, Return(<<>>, dec.err))
         ELSE IF ~dec.data.OK
              THEN Frame(r.req, t, TRUE, dec.data, Return(<<>>, ErrorsNew(dec.data.Error)))
              ELSE Frame(r.req, t, TRUE, dec.data, Return(<<>>, NilErr))

Ping ==
    /\ pc = "ready"
    /\ \E t \in TransportOutcomes({}) : Finish("Ping", <<>>, PingCall(t))

\* PingVenueSwitch with the VenueSymbol field left unset
PingVenueSwitch_NoSymbol(status, venue) ==
    CASE status = 500 -> <<ErrorAPITimeout>>
      [] status = 404 -> <<ErrorVenueNotFound(<<>>)>>
      [] OTHER -> <<>>

\* PingVenueSwitch without its case 500
PingVenueSwitch_No500(status, venue) ==
    CASE status = 404 -> <<ErrorVenueNotFound(venue)>>
      [] OTHER -> <<>>

PingVenueSwitch(status, venue) ==
    CASE status = 500 -> <<ErrorAPITimeout>>
      [] status = 404 -> <<ErrorVenueNotFound(venue)>>
      [] OTHER -> <<>>

PingVenueCall(venueArg, t) ==
    LET venue == TrimSpace(venueArg) IN
    IF venue = <<>>
    THEN Frame(<<>>, NoResp, FALSE, <<>>, Panic(InvalidSymbol("Invalid venue symbol", venue)))
    ELSE
    LET r == Get(URL("/venues/:venue/heartbeat", [venue |-> venue])) IN
    IF r.err # NilErr THEN Frame(<<>>, NoResp, FALSE, <<>>, Return(<<>>, r.err))
    ELSE IF t.got = "error" THEN Frame(r.req, t, FALSE, <<>>, Return(<<>>, TransportError(t)))
    ELSE LET sw == PingVenueSwitch(t.status, venue) IN
         IF sw # <<>> THEN Frame(r.req, t, FALSE, <<>>, Return(<<>>, sw[1]))
         ELSE LET dec == Decode(t.body, apiRespHeartbeat(Members(t.body))) IN
              IF dec.err # NilErr THEN Frame(r.req, t, TRUE, <<>>, Return(<<>>, dec.err))
              ELSE IF ~dec.data.OK
                   THEN Frame(r.req, t, TRUE, dec.data, Return(<<>>, ErrorsNew(dec.data.Error)))
                   ELSE Frame(r.req, t, TRUE, dec.data, Return(<<>>, NilErr))

PingVenue ==
    /\ pc = "ready"
    /\ \E venue \in VenueArgs, t \in TransportOutcomes({}) :
          Finish("PingVenue", [venue |-> venue], PingVenueCall(venue, t))

\* req.Header = map[string][]string{...}: replaces the request's headers
SetHeader(r, h) == [err |-> r.err, req |-> <<[r.req[1] EXCEPT !.header = h]>>]

AuthHeader(key) == ("X-Starfighter-Authorization" :> <<key>>)
AuthJSONHeader(key) ==
    ("X-Starfighter-Authorization" :> <<key>>) @@ ("Content-Type" :> <<"application/json">>)

\* http.NewRequest followed by the assignment of req.Header, in the order
\* GetOrder, CancelOrder, GetAllOrders and GetStockOrders write them: the
\* header is assigned before err is looked at
NewRequestThenHeader(method, url, h) ==
    LET r == NewRequest(method, url, NoBody) IN
    IF r.err # NilErr THEN r ELSE SetHeader(r, h)

\* ListStocksSwitch without its case 401
ListStocksSwitch_No401(status, venue) ==
    CASE status = 404 -> <<ErrorVenueNotFound(venue)>>
      [] OTHER -> <<>>

\* ListStocksSwitch with PingVenue's case 500 added
ListStocksSwitch_With500(status, venue) ==
    CASE status = 401 -> <<ErrorUnauthorized>>
      [] status = 404 -> <<ErrorVenueNotFound(venue)>>
      [] status = 500 -> <<ErrorAPITimeout>>
      [] OTHER -> <<>>

ListStocksSwitch(status, venue) ==
    CASE status = 401 -> <<ErrorUnauthorized>>
      [] status = 404 -> <<ErrorVenueNotFound(venue)>>
      [] OTHER -> <<>>

ListStocksCall(venueArg, t) ==
    LET venue == TrimSpace(venueArg) IN
    IF venue = <<>>
    THEN Frame(<<>>, NoResp, FALSE, <<>>, Panic(InvalidSymbol("Invalid venue symbol", venue)))
    ELSE
    LET r == Get(URL("/venues/:venue/stocks", [venue |-> venue])) IN
    IF r.err # NilErr THEN Frame(<<>>, NoResp, FALSE, <<>>, Return(<<>>, r.err))
    ELSE IF t.got = "error" THEN Frame(r.req, t, FALSE, <<>>, Return(<<>>, TransportError(t)))
    ELSE LET sw == ListStocksSwitch(t.status, venue) IN
         IF sw # <<>> THEN Frame(r.req, t, FALSE, <<>>, Return(<<>>, sw[1]))
         ELSE LET dec == Decode(t.body, apiRespStocks(Members(t.body))) IN
              IF dec.err # NilErr THEN Frame(r.req, t, TRUE, <<>>, Return(<<>>, dec.err))
              ELSE IF ~dec.data.OK
                   THEN Frame(r.req, t, TRUE, dec.data, Return(<<>>, ErrorsNew(dec.data.Error)))
                   ELSE Frame(r.req, t, TRUE, dec.data, Return(<<dec.data.Stocks>>, NilErr))

ListStocks ==
    /\ pc = "ready"
    /\ \E venue \in VenueArgs, t \in TransportOutcomes(StocksBodies) :
          Finish("ListStocks", [venue |-> venue], ListStocksCall(venue, t))

GetOrderbookSwitch(status, venue, stock) ==
    CASE status = 401 -> <<ErrorUnauthorized>>
      [] status = 404 -> <<ErrorStockNotFound(venue, stock)>>
      [] OTHER -> <<>>

Orderbook(d) == [Bids |-> d.Bids, Asks |-> d.Asks, Timestamp |-> d.Timestamp]

GetOrderbookCall(venueArg, stockArg, t) ==
    LET venue == TrimSpace(venueArg)
        stock == TrimSpace(stockArg) IN
    IF venue = <<>>
    THEN Frame(<<>>, NoResp, FALSE, <<>>, Panic(InvalidSymbol("Invalid venue symbol", venue)))
    ELSE IF stock = <<>>
    THEN Frame(<<>>, NoResp, FALSE, <<>>, Panic(InvalidSymbol("Invalid stock symbol", stock)))
    ELSE
    LET r == Get(URL("/venues/:venue/stocks/:stock", [venue |-> venue, stock |-> stock])) IN
    IF r.err # NilErr THEN Frame(<<>>, NoResp, FALSE, <<>>, Return(<<>>, r.err))
    ELSE IF t.got = "error" THEN Frame(r.req, t, FALSE, <<>>, Return(<<>>, TransportError(t)))
    ELSE LET sw == GetOrderbookSwitch(t.status, venue, stock) IN
         IF sw # <<>> THEN Frame(r.req, t, FALSE, <<>>, Return(<<>>, sw[1]))
         ELSE LET dec == Decode(t.body, apiRespStockOrderbook(Members(t.body))) IN
              IF dec.err # NilErr THEN Frame(r.req, t, TRUE, <<>>, Return(<<>>, dec.err))
              ELSE IF ~dec.data.OK
                   THEN Frame(r.req, t, TRUE, dec.data, Return(<<>>, ErrorsNew(dec.data.Error)))
                   ELSE Frame(r.req, t, TRUE, dec.data, Return(<<Orderbook(dec.data)>>, NilErr))

GetOrderbook ==
    /\ pc = "ready"
    /\ \E venue \in VenueArgs, stock \in StockArgs, t \in TransportOutcomes(OrderbookBodies) :
          Finish("GetOrderbook", [venue |-> venue, stock |-> stock],
                 GetOrderbookCall(venue, stock, t))

\* PlaceOrderSwitch without its case 404: a 404 goes on to the decoder
PlaceOrderSwitch_No404(status, venue, stock) ==
    CASE status = 401 -> <<ErrorUnauthorized>>
      [] OTHER -> <<>>

PlaceOrderSwitch(status, venue, stock) ==
    CASE status = 401 -> <<ErrorUnauthorized>>
      [] status = 404 -> <<ErrorStockNotFound(venue, stock)>>
      [] OTHER -> <<>>

\* PlaceOrderStatus with Quantity and OriginalQuantity exchanged
PlaceOrderStatus_Swapped(d) ==
    [Direction |-> d.Direction, OriginalQuantity |-> d.Quantity,
     Quantity |-> d.OriginalQuantity, Price |-> d.Price, OrderType |-> d.OrderType,
     OrderID |-> d.OrderID, Account |-> d.Account, Timestamp |-> d.Timestamp,
     Fills |-> d.Fills, TotalFilled |-> d.TotalFilled, Open |-> d.Open]

\* the OrderStatus literal PlaceOrder returns
PlaceOrderStatus(d) ==
    [Direction |-> d.Direction, OriginalQuantity |-> d.OriginalQuantity,
     Quantity |-> d.Quantity, Price |-> d.Price, OrderType |-> d.OrderType,
     OrderID |-> d.OrderID, Account |-> d.Account, Timestamp |-> d.Timestamp,
     Fills |-> d.Fills, TotalFilled |-> d.TotalFilled, Open |-> d.Open]

\* PlaceOrderBody with price and quantity substituted for each other
PlaceOrderBody_QtyPrice(account, venue, stock, price, quantity, direction, orderType) ==
    <<[account |-> account, venue |-> venue, stock |-> stock, price |-> quantity,
       qty |-> price, direction |-> direction, orderType |-> orderType]>>

\* the fmt.Sprintf'ed JSON text, by the values substituted into it
PlaceOrderBody(account, venue, stock, price, quantity, direction, orderType) ==
    <<[account |-> account, venue |-> venue, stock |-> stock, price |-> price,
       qty |-> quantity, direction |-> direction, orderType |-> orderType]>>

PlaceOrderRequest(key, venue, stock, account, o) ==
    LET r == NewRequest("POST",
                 URL("/venues/:venue/stocks/:stock/orders", [venue |-> venue, stock |-> stock]),
                 PlaceOrderBody(account, venue, stock, o.price, o.quantity,
                                o.direction, o.orderType)) IN
    IF r.err # NilErr THEN r ELSE SetHeader(r, AuthJSONHeader(key))

PlaceOrderCall(venueArg, stockArg, accountArg, key, o, t) ==
    LET venue == TrimSpace(venueArg)
        stock == TrimSpace(stockArg)
        account == TrimSpace(accountArg) IN
    IF venue = <<>>
    THEN Frame(<<>>, NoResp, FALSE, <<>>, Panic(InvalidSymbol("Invalid venue symbol", venue)))
    ELSE IF stock = <<>>
    THEN Frame(<<>>, NoResp, FALSE, <<>>, Panic(InvalidSymbol("Invalid stock symbol", stock)))
    ELSE IF account = <<>>
    THEN Frame(<<>>, NoResp, FALSE, <<>>, Panic(InvalidSymbol("Invalid account name", account)))
    ELSE
    LET r == PlaceOrderRequest(key, venue, stock, account, o) IN
    IF r.err # NilErr THEN Frame(<<>>, NoResp, FALSE, <<>>, Return(<<>>, r.err))
    ELSE IF t.got = "error" THEN Frame(r.req, t, FALSE, <<>>, Return(<<>>, TransportError(t)))
    ELSE LET sw == PlaceOrderSwitch(t.status, venue, stock) IN
         IF sw # <<>> THEN Frame(r.req, t, FALSE, <<>>, Return(<<>>, sw[1]))
         ELSE LET dec == Decode(t.body, apiRespNewStockOrder(Members(t.body))) IN
              IF dec.err # NilErr THEN Frame(r.req, t, TRUE, <<>>, Return(<<>>, dec.err))
              ELSE IF ~dec.data.OK
                   THEN Frame(r.req, t, TRUE, dec.data, Return(<<>>, ErrorsNew(dec.data.Error)))
                   ELSE Frame(r.req, t, TRUE, dec.data, Return(<<PlaceOrderStatus(dec.data)>>, NilErr))

PlaceOrder ==
    /\ pc = "ready"
    /\ \E venue \in VenueArgs, stock \in StockArgs, account \in AccountArgs,
          o \in OrderParams, t \in TransportOutcomes(OrderBodies) :
          Finish("PlaceOrder",
                 [venue |-> venue, stock |-> stock, account |-> account,
                  price |-> o.price, quantity |-> o.quantity,
                  direction |-> o.direction, orderType |-> o.orderType],
                 PlaceOrderCall(venue, stock, account, apiKey, o, t))

GetQuoteSwitch(status, venue, stock) ==
    CASE status = 401 -> <<ErrorUnauthorized>>
      [] status = 404 -> <<ErrorStockNotFound(venue, stock)>>
      [] OTHER -> <<>>

StockQuote(d) ==
    [BidPrice |-> d.BidPrice, BidSize |-> d.BidSize, BidDepth |-> d.BidDepth,
     AskPrice |-> d.AskPrice, AskSize |-> d.AskSize, AskDepth |-> d.AskDepth,
     LastPrice |-> d.LastPrice, LastSize |-> d.LastSize,
     LastTradeTime |-> d.LastTradeTime, QuoteTime |-> d.QuoteTime]

GetQuoteCall(venueArg, stockArg, t) ==
    LET venue == TrimSpace(venueArg)
        stock == TrimSpace(stockArg) IN
    IF venue = <<>>
    THEN Frame(<<>>, NoResp, FALSE, <<>>, Panic(InvalidSymbol("Invalid venue symbol", venue)))
    ELSE IF stock = <<>>
    THEN Frame(<<>>, NoResp, FALSE, <<>>, Panic(InvalidSymbol("Invalid stock symbol", stock)))
    ELSE
    LET r == Get(URL("/venues/:venue/stocks/:stock/quote", [venue |-> venue, stock |-> stock])) IN
    IF r.err # NilErr THEN Frame(<<>>, NoResp, FALSE, <<>>, Return(<<>>, r.err))
    ELSE IF t.got = "error" THEN Frame(r.req, t, FALSE, <<>>, Return(<<>>, TransportError(t)))
    ELSE LET sw == GetQuoteSwitch(t.status, venue, stock) IN
         IF sw # <<>> THEN Frame(r.req, t, FALSE, <<>>, Return(<<>>, sw[1]))
         ELSE LET dec == Decode(t.body, apiRespStockQuote(Members(t.body))) IN
              IF dec.err # NilErr THEN Frame(r.req, t, TRUE, <<>>, Return(<<>>, dec.err))
              ELSE IF ~dec.data.OK
                   THEN Frame(r.req, t, TRUE, dec.data, Return(<<>>, ErrorsNew(dec.data.Error)))
                   ELSE Frame(r.req, t, TRUE, dec.data, Return(<<StockQuote(dec.data)>>, NilErr))

GetQuote ==
    /\ pc = "ready"
    /\ \E venue \in VenueArgs, stock \in StockArgs, t \in TransportOutcomes(QuoteBodies) :
          Finish("GetQuote", [venue |-> venue, stock |-> stock], GetQuoteCall(venue, stock, t))

\* GetOrderSwitch with a case 404 added
GetOrderSwitch_With404(status) ==
    CASE status = 401 -> <<ErrorUnauthorized>>
      [] status = 404 -> <<ErrorVenueNotFound(<<>>)>>
      [] OTHER -> <<>>

GetOrderSwitch(status) ==
    CASE status = 401 -> <<ErrorUnauthorized>>
      [] OTHER -> <<>>

GetOrderStatus(d) ==
    [Direction |-> d.Direction, OriginalQuantity |-> d.OriginalQuantity,
     Quantity |-> d.Quantity, Price |-> d.Price, OrderType |-> d.OrderType,
     OrderID |-> d.OrderID, Account |-> d.Account, Timestamp |-> d.Timestamp,
     Fills |-> d.Fills, TotalFilled |-> d.TotalFilled, Open |-> d.Open]

GetOrderCall(venueArg, stockArg, key, orderID, t) ==
    LET venue == TrimSpace(venueArg)
        stock == TrimSpace(stockArg) IN
    IF venue = <<>>
    THEN Frame(<<>>, NoResp, FALSE, <<>>, Panic(InvalidSymbol("Invalid venue symbol", venue)))
    ELSE IF stock = <<>>
    THEN Frame(<<>>, NoResp, FALSE, <<>>, Panic(InvalidSymbol("Invalid stock symbol", stock)))
    ELSE
    LET r == NewRequestThenHeader("GET", URL("/venues/:venue/stocks/:stock/orders/:id", [venue |-> venue, stock |-> stock, id |-> FormatInt(orderID)]), AuthHeader(key)) IN
    IF r.err # NilErr THEN Frame(<<>>, NoResp, FALSE, <<>>, Panic(NilDereference))
    ELSE IF t.got = "error" THEN Frame(r.req, t, FALSE, <<>>, Return(<<>>, TransportError(t)))
    ELSE LET sw == GetOrderSwitch(t.status) IN
         IF sw # <<>> THEN Frame(r.req, t, FALSE, <<>>, Return(<<>>, sw[1]))
         ELSE LET dec == Decode(t.body, apiRespStockOrderStatus(Members(t.body))) IN
              IF dec.err # NilErr THEN Frame(r.req, t, TRUE, <<>>, Return(<<>>, dec.err))
              ELSE IF ~dec.data.OK
                   THEN Frame(r.req, t, TRUE, dec.data, Return(<<>>, ErrorsNew(dec.data.Error)))
                   ELSE Frame(r.req, t, TRUE, dec.data, Return(<<GetOrderStatus(dec.data)>>, NilErr))

GetOrder ==
    /\ pc = "ready"
    /\ \E venue \in VenueArgs, stock \in StockArgs, orderID \in OrderIDs,
          t \in TransportOutcomes(OrderBodies) :
          Finish("GetOrder", [venue |-> venue, stock |-> stock, orderID |-> orderID],
                 GetOrderCall(venue, stock, apiKey, orderID, t))

\* CancelOrderSwitch with the two symbols exchanged
CancelOrderSwitch_Swapped(status, venue, stock) ==
    CASE status = 401 -> <<ErrorUnauthorized>>
      [] status = 404 -> <<ErrorStockNotFound(stock, venue)>>
      [] OTHER -> <<>>

CancelOrderSwitch(status, venue, stock) ==
    CASE status = 401 -> <<ErrorUnauthorized>>
      [] status = 404 -> <<ErrorStockNotFound(venue, stock)>>
      [] OTHER -> <<>>

CancelOrderStatus(d) ==
    [Direction |-> d.Direction, OriginalQuantity |-> d.OriginalQuantity,
     Quantity |-> d.Quantity, Price |-> d.Price, OrderType |-> d.OrderType,
     OrderID |-> d.OrderID, Account |-> d.Account, Timestamp |-> d.Timestamp,
     Fills |-> d.Fills, TotalFilled |-> d.TotalFilled, Open |-> d.Open]

CancelOrderCall(venueArg, stockArg, key, orderID, t) ==
    LET venue == TrimSpace(venueArg)
        stock == TrimSpace(stockArg) IN
    IF venue = <<>>
    THEN Frame(<<>>, NoResp, FALSE, <<>>, Panic(InvalidSymbol("Invalid venue symbol", venue)))
    ELSE IF stock = <<>>
    THEN Frame(<<>>, NoResp, FALSE, <<>>, Panic(InvalidSymbol("Invalid stock symbol", stock)))
    ELSE
    LET r == NewRequestThenHeader("DELETE", URL("/venues/:venue/stocks/:stock/orders/:id", [venue |-> venue, stock |-> stock, id |-> FormatInt(orderID)]), AuthHeader(key)) IN
    IF r.err # NilErr THEN Frame(<<>>, NoResp, FALSE, <<>>, Panic(NilDereference))
    ELSE IF t.got = "error" THEN Frame(r.req, t, FALSE, <<>>, Return(<<>>, TransportError(t)))
    ELSE LET sw == CancelOrderSwitch(t.status, venue, stock) IN
         IF sw # <<>> THEN Frame(r.req, t, FALSE, <<>>, Return(<<>>, sw[1]))
         ELSE LET dec == Decode(t.body, apiRespStockOrderStatus(Members(t.body))) IN
              IF dec.err # NilErr THEN Frame(r.req, t, TRUE, <<>>, Return(<<>>, dec.err))
              ELSE IF ~dec.data.OK
                   THEN Frame(r.req, t, TRUE, dec.data, Return(<<>>, ErrorsNew(dec.data.Error)))
                   ELSE Frame(r.req, t, TRUE, dec.data, Return(<<CancelOrderStatus(dec.data)>>, NilErr))

CancelOrder ==
    /\ pc = "ready"
    /\ \E venue \in VenueArgs, stock \in StockArgs, orderID \in OrderIDs,
          t \in TransportOutcomes(OrderBodies) :
          Finish("CancelOrder", [venue |-> venue, stock |-> stock, orderID |-> orderID],
                 CancelOrderCall(venue, stock, apiKey, orderID, t))

\* GetAllOrdersSwitch without its case 401
GetAllOrdersSwitch_No401(status) == <<>>

GetAllOrdersSwitch(status) ==
    CASE status = 401 -> <<ErrorUnauthorized>>
      [] OTHER -> <<>>

GetAllOrdersCall(venueArg, accountArg, key, t) ==
    LET venue == TrimSpace(venueArg)
        account == TrimSpace(accountArg) IN
    IF venue = <<>>
    THEN Frame(<<>>, NoResp, FALSE, <<>>, Panic(InvalidSymbol("Invalid venue symbol", venue)))
    ELSE IF account = <<>>
    THEN Frame(<<>>, NoResp, FALSE, <<>>, Panic(InvalidSymbol("Invalid account name", account)))
    ELSE
    LET r == NewRequestThenHeader("GET", URL("/venues/:venue/accounts/:account/orders", [venue |-> venue, account |-> account]), AuthHeader(key)) IN
    IF r.err # NilErr THEN Frame(<<>>, NoResp, FALSE, <<>>, Panic(NilDereference))
    ELSE IF t.got = "error" THEN Frame(r.req, t, FALSE, <<>>, Return(<<>>, TransportError(t)))
    ELSE LET sw == GetAllOrdersSwitch(t.status) IN
         IF sw # <<>> THEN Frame(r.req, t, FALSE, <<>>, Return(<<>>, sw[1]))
         ELSE LET dec == Decode(t.body, apiRespAllOrdersStatus(Members(t.body))) IN
              IF dec.err # NilErr THEN Frame(r.req, t, TRUE, <<>>, Return(<<>>, dec.err))
              ELSE IF ~dec.data.OK
                   THEN Frame(r.req, t, TRUE, dec.data, Return(<<>>, ErrorsNew(dec.data.Error)))
                   ELSE Frame(r.req, t, TRUE, dec.data, Return(<<dec.data.Orders>>, NilErr))

GetAllOrders ==
    /\ pc = "ready"
    /\ \E venue \in VenueArgs, account \in AccountArgs, t \in TransportOutcomes(OrdersBodies) :
          Finish("GetAllOrders", [venue |-> venue, account |-> account],
                 GetAllOrdersCall(venue, account, apiKey, t))

GetStockOrdersSwitch(status) ==
    CASE status = 401 -> <<ErrorUnauthorized>>
      [] OTHER -> <<>>

GetStockOrdersCall(venueArg, accountArg, stockArg, key, t) ==
    LET venue == TrimSpace(venueArg)
        account == TrimSpace(accountArg)
        stock == TrimSpace(stockArg) IN
    IF venue = <<>>
    THEN Frame(<<>>, NoResp, FALSE, <<>>, Panic(InvalidSymbol("Invalid venue symbol", venue)))
    ELSE IF account = <<>>
    THEN Frame(<<>>, NoResp, FALSE, <<>>, Panic(InvalidSymbol("Invalid account name", account)))
    ELSE IF stock = <<>>
    THEN Frame(<<>>, NoResp, FALSE, <<>>, Panic(InvalidSymbol("Invalid stock symbol", stock)))
    ELSE
    LET r == NewRequestThenHeader("GET", URL("/venues/:venue/accounts/:account/stocks/:stock/orders", [venue |-> venue, account |-> account, stock |-> stock]), AuthHeader(key)) IN
    IF r.err # NilErr THEN Frame(<<>>, NoResp, FALSE, <<>>, Panic(NilDereference))
    ELSE IF t.got = "error" THEN Frame(r.req, t, FALSE, <<>>, Return(<<>>, TransportError(t)))
    ELSE LET sw == GetStockOrdersSwitch(t.status) IN
         IF sw # <<>> THEN Frame(r.req, t, FALSE, <<>>, Return(<<>>, sw[1]))
         ELSE LET dec == Decode(t.body, apiRespAllOrdersStatus(Members(t.body))) IN
              IF dec.err # NilErr THEN Frame(r.req, t, TRUE, <<>>, Return(<<>>, dec.err))
              ELSE IF ~dec.data.OK
                   THEN Frame(r.req, t, TRUE, dec.data, Return(<<>>, ErrorsNew(dec.data.Error)))
                   ELSE Frame(r.req, t, TRUE, dec.data, Return(<<dec.data.Orders>>, NilErr))

GetStockOrders ==
    /\ pc = "ready"
    /\ \E venue \in VenueArgs, account \in AccountArgs, stock \in StockArgs,
          t \in TransportOutcomes(OrdersBodies) :
          Finish("GetStockOrders", [venue |-> venue, account |-> account, stock |-> stock],
                 GetStockOrdersCall(venue, account, stock, apiKey, t))

\* the method set of *Client: what the method named o does with the
\* arguments a, on a client holding key, when the transport answers t
CallFrame(o, a, key, t) ==
    CASE o = "Ping" -> PingCall(t)
      [] o = "PingVenue" -> PingVenueCall(a.venue, t)
      [] o = "ListStocks" -> ListStocksCall(a.venue, t)
      [] o = "GetOrderbook" -> GetOrderbookCall(a.venue, a.stock, t)
      [] o = "PlaceOrder" ->
            PlaceOrderCall(a.venue, a.stock, a.account, key,
                           [price |-> a.price, quantity |-> a.quantity,
                            direction |-> a.direction, orderType |-> a.orderType], t)
      [] o = "GetQuote" -> GetQuoteCall(a.venue, a.stock, t)
      [] o = "GetOrder" -> GetOrderCall(a.venue, a.stock, key, a.orderID, t)
      [] o = "CancelOrder" -> CancelOrderCall(a.venue, a.stock, key, a.orderID, t)
      [] o = "GetAllOrders" -> GetAllOrdersCall(a.venue, a.account, key, t)
      [] o = "GetStockOrders" ->
            GetStockOrdersCall(a.venue, a.account, a.stock, key, t)

\* the caller has the outcome and may call again
NextCall ==
    /\ pc = "returned"
    /\ pc' = "ready"
    /\ op' = "none"
    /\ args' = <<>>
    /\ requests' = <<>>
    /\ resp' = NoResp
    /\ bodyRead' = FALSE
    /\ bodyClosed' = FALSE
    /\ respData' = <<>>
    /\ outcome' = NoOutcome
    /\ UNCHANGED apiKey

Next ==
    \/ Ping
    \/ PingVenue
    \/ ListStocks
    \/ GetOrderbook
    \/ PlaceOrder
    \/ GetQuote
    \/ GetOrder
    \/ CancelOrder
    \/ GetAllOrders
    \/ GetStockOrders
    \/ NextCall

Spec == Init /\ [][Next]_vars

TypeOK ==
    /\ apiKey \in ApiKeys
    /\ pc \in {"ready", "returned", "panicked"}
    /\ bodyRead \in BOOLEAN
    /\ Len(requests) <= 1

(***************************************************************************)
(* Calls issued concurrently on one client.  Each call runs in its own     *)
(* goroutine p: what a method declares (venue, req, resp, respData, err)   *)
(* is local to the call, so the call's record is the p-th component of the *)
(* variables, and the Client struct is the only state the calls share.  A  *)
(* call takes two steps, one up to httpClient.Get or httpClient.Do and one *)
(* from the transport's answer to the return, and the steps of distinct    *)
(* calls interleave freely.  A call that panics ends alone, as under a     *)
(* caller that recovers; the calls that go on cover the other callers too. *)
(***************************************************************************)
NumProcs == 2
Procs == 1..NumProcs

ConcCalls ==
    {[op |-> "Ping", args |-> <<>>],
     [op |-> "PingVenue", args |-> [venue |-> <<"V">>]],
     [op |-> "PingVenue", args |-> [venue |-> <<" ">>]],
     [op |-> "ListStocks", args |-> [venue |-> <<" ", "V", "\t">>]],
     [op |-> "GetOrderbook", args |-> [venue |-> <<"V">>, stock |-> <<"S">>]],
     [op |-> "PlaceOrder",
      args |-> [venue |-> <<"V">>, stock |-> <<"S">>, account |-> <<"A">>,
                price |-> 5264, quantity |-> 4625, direction |-> "buy",
                orderType |-> "limit"]],
     [op |-> "GetQuote", args |-> [venue |-> <<"V">>, stock |-> <<"S">>]],
     [op |-> "GetOrder", args |-> [venue |-> <<"V">>, stock |-> <<"S">>, orderID |-> 7]],
     [op |-> "GetOrder",
      args |-> [venue |-> <<"V", "\n", "X">>, stock |-> <<"S">>, orderID |-> 7]],
     [op |-> "CancelOrder", args |-> [venue |-> <<"V">>, stock |-> <<"S">>, orderID |-> 7]],
     [op |-> "GetAllOrders", args |-> [venue |-> <<"V">>, account |-> <<"A">>]],
     [op |-> "GetStockOrders",
      args |-> [venue |-> <<"V">>, account |-> <<"A">>, stock |-> <<"S">>]]}

ConcTransport ==
    TransportErrors \cup
    {[got |-> "response", status |-> 200, body |-> Json([ok |-> TRUE])],
     [got |-> "response", status |-> 404,
      body |-> Json([ok |-> FALSE, error |-> "boom"])]}

\* NewClient(apiKey), and no call started
InitConc ==
    /\ apiKey \in ApiKeys
    /\ pc = [p \in Procs |-> "ready"]
    /\ op = [p \in Procs |-> "none"]
    /\ args = [p \in Procs |-> <<>>]
    /\ requests = [p \in Procs |-> <<>>]
    /\ resp = [p \in Procs |-> NoResp]
    /\ bodyRead = [p \in Procs |-> FALSE]
    /\ bodyClosed = [p \in Procs |-> FALSE]
    /\ respData = [p \in Procs |-> <<>>]
    /\ outcome = [p \in Procs |-> NoOutcome]

\* the part of a method that runs before the transport answers: the frame
\* it leaves holds no request when the method ended there
BeforeTransport(o, a, key) ==
    CallFrame(o, a, key, CHOOSE t \in TransportErrors : TRUE)

\* one struct shared by every call in place of the method's own respData
DecodeInto_Shared(rd, p, data) == [q \in DOMAIN rd |-> data]

\* var respData apiResp...; decoder.Decode(&respData): the struct decoded
\* into is a local of the call
DecodeInto(rd, p, data) == [rd EXCEPT ![p] = data]

\* call p enters a method: the arguments are checked, the request is built
\* with the client's key and handed to the transport, unless the method
\* panics or returns before that
Send(p) ==
    /\ pc[p] = "ready"
    /\ \E c \in ConcCalls :
          LET f == BeforeTransport(c.op, c.args, apiKey) IN
          /\ op' = [op EXCEPT ![p] = c.op]
          /\ args' = [args EXCEPT ![p] = c.args]
          /\ requests' = [requests EXCEPT ![p] = f.requests]
          /\ IF f.requests = <<>>
             THEN /\ pc' = [pc EXCEPT ![p] = IF f.outcome.kind = "panic"
                                             THEN "panicked" ELSE "returned"]
                  /\ outcome' = [outcome EXCEPT ![p] = f.outcome]
             ELSE /\ pc' = [pc EXCEPT ![p] = "waiting"]
                  /\ UNCHANGED outcome
    /\ UNCHANGED <<apiKey, resp, bodyRead, bodyClosed, respData>>

\* the transport answers call p, which runs to its return
Receive(p) ==
    /\ pc[p] = "waiting"
    /\ \E t \in ConcTransport :
          LET f == CallFrame(op[p], args[p], apiKey, t) IN
          /\ pc' = [pc EXCEPT ![p] = "returned"]
          /\ resp' = [resp EXCEPT ![p] = t]
          /\ bodyRead' = [bodyRead EXCEPT ![p] = f.bodyRead]
          /\ bodyClosed' = [bodyClosed EXCEPT ![p] = f.bodyClosed]
          /\ respData' = DecodeInto(respData, p, f.respData)
          /\ outcome' = [outcome EXCEPT ![p] = f.outcome]
    /\ UNCHANGED <<apiKey, op, args, requests>>

\* the caller of p has the outcome and may call again
NextCallOf(p) ==
    /\ pc[p] = "returned"
    /\ pc' = [pc EXCEPT ![p] = "ready"]
    /\ op' = [op EXCEPT ![p] = "none"]
    /\ args' = [args EXCEPT ![p] = <<>>]
    /\ requests' = [requests EXCEPT ![p] = <<>>]
    /\ resp' = [resp EXCEPT ![p] = NoResp]
    /\ bodyRead' = [bodyRead EXCEPT ![p] = FALSE]
    /\ bodyClosed' = [bodyClosed EXCEPT ![p] = FALSE]
    /\ respData' = [respData EXCEPT ![p] = <<>>]
    /\ outcome' = [outcome EXCEPT ![p] = NoOutcome]
    /\ UNCHANGED apiKey

NextConc ==
    \/ \E p \in Procs : Send(p)
    \/ \E p \in Procs : Receive(p)
    \/ \E p \in Procs : NextCallOf(p)

SpecConc == InitConc /\ [][NextConc]_vars

(***************************************************************************)
(* Properties                                                              *)
(***************************************************************************)
GotStatus(code) == resp.got = "response" /\ resp.status = code

\* the response body is a JSON object whose ok member is v
OkEnvelope(v) ==
    /\ resp.got = "response"
    /\ resp.body.kind = "object"
    /\ "ok" \in DOMAIN resp.body.members
    /\ resp.body.members.ok = v

\* v is arg without some white space at its two ends
StripsTo(arg, v) ==
    \E i \in 0..Len(arg), j \in 0..Len(arg) :
        /\ i + Len(v) + j = Len(arg)
        /\ SubSeq(arg, i + 1, i + Len(v)) = v
        /\ \A k \in 1..i : IsSpace(arg[k])
        /\ \A k \in (Len(arg) - j + 1)..Len(arg) : IsSpace(arg[k])

\* the venue and the stock named in the request that was issued
RequestedVenue == requests[1].url.params.venue
RequestedStock == requests[1].url.params.stock

VenueScoped == {"PingVenue", "ListStocks"}
StockScoped == {"GetOrderbook", "PlaceOrder", "GetQuote", "CancelOrder"}
Authenticated ==
    {"ListStocks", "GetOrderbook", "PlaceOrder", "GetQuote", "GetOrder",
     "CancelOrder", "GetAllOrders", "GetStockOrders"}

\* the sentinel row of an operation (section 4.1 of the specification)
SentinelRow(o) ==
    CASE o = "PingVenue" -> {404, 500}
      [] o \in {"ListStocks"} \cup StockScoped -> {401, 404}
      [] o \in {"GetOrder", "GetAllOrders", "GetStockOrders"} -> {401}
      [] OTHER -> {}

SentinelError(o, code) ==
    CASE code = 401 -> ErrorUnauthorized
      [] code = 500 -> ErrorAPITimeout
      [] code = 404 /\ o \in VenueScoped -> ErrorVenueNotFound(RequestedVenue)
      [] code = 404 /\ o \in StockScoped ->
            ErrorStockNotFound(RequestedVenue, RequestedStock)

\* C1: when the status code is in the operation's sentinel row, the typed
\* error is returned and the body is never read or decoded, so the outcome
\* depends on the operation, the status and the arguments only, whatever the
\* body is.
C1_SentinelBeforeDecode ==
    (resp.got = "response" /\ resp.status \in SentinelRow(op)) =>
        /\ ~bodyRead
        /\ respData = <<>>
        /\ outcome = Return(<<>>, SentinelError(op, resp.status))

C1_Witness ==
    /\ op = "PlaceOrder"
    /\ GotStatus(404)
    /\ OkEnvelope(TRUE)
    /\ ~bodyRead
    /\ outcome.err.type = "ErrorStockNotFound"

\* C2: each of the eight authenticated operations answers a 401 with
\* ErrorUnauthorized and a nil value, whatever the body holds.
C2_Unauthorized ==
    (op \in Authenticated /\ GotStatus(401)) =>
        /\ outcome.kind = "return"
        /\ outcome.value = <<>>
        /\ outcome.err = ErrorUnauthorized

C2_Witness ==
    /\ op = "GetStockOrders"
    /\ GotStatus(401)
    /\ OkEnvelope(TRUE)
    /\ outcome.err = ErrorUnauthorized

\* C3 as stated: every operation, Ping and PingVenue included, answers a 401
\* with ErrorUnauthorized.
C3_Original ==
    GotStatus(401) => (outcome.kind = "return" /\ outcome.err = ErrorUnauthorized)

\* C3 as amended: every operation except Ping and PingVenue answers a 401
\* with ErrorUnauthorized without reading the body; Ping and PingVenue do not
\* classify a 401, they decode the body and return nil, the envelope's error
\* or the decoding error, never ErrorUnauthorized.
C3_Amended ==
    GotStatus(401) =>
        IF op \in {"Ping", "PingVenue"}
        THEN /\ bodyRead
             /\ outcome.kind = "return"
             /\ outcome.err.type \in {"nil", "errorString", "json"}
        ELSE /\ ~bodyRead
             /\ outcome.kind = "return"
             /\ outcome.err = ErrorUnauthorized

C3_Witness ==
    /\ op = "PingVenue"
    /\ GotStatus(401)
    /\ resp.body.kind = "empty"
    /\ outcome.err = DecodeError("EOF")

\* C4: PingVenue and ListStocks answer a 404 with ErrorVenueNotFound whose
\* VenueSymbol is the venue that was requested: the venue named in the
\* request, which is the venue argument without its surrounding white space.
C4_VenueNotFound ==
    (op \in VenueScoped /\ GotStatus(404)) =>
        /\ outcome.kind = "return"
        /\ outcome.value = <<>>
        /\ outcome.err.type = "ErrorVenueNotFound"
        /\ outcome.err.VenueSymbol = RequestedVenue
        /\ StripsTo(args.venue, outcome.err.VenueSymbol)

C4_Witness ==
    /\ op = "ListStocks"
    /\ GotStatus(404)
    /\ outcome.err = ErrorVenueNotFound(<<"V">>)

C6_Claim ==
    (op \in {"GetOrderbook", "GetAllOrders", "GetStockOrders"} /\ GotStatus(404)) =>
        (outcome.kind = "return" /\ outcome.err.type = "ErrorVenueNotFound")

\* C7: PingVenue answers a 500 with ErrorAPITimeout; every other operation
\* does not classify a 500 by its status: it reads the body and returns what
\* the body decodes to.
C7_APITimeout ==
    GotStatus(500) =>
        IF op = "PingVenue"
        THEN ~bodyRead /\ outcome = Return(<<>>, ErrorAPITimeout)
        ELSE /\ bodyRead
             /\ outcome.kind = "return"
             /\ outcome.err.type \in {"nil", "errorString", "json"}

C7_Witness ==
    /\ op = "PingVenue"
    /\ GotStatus(500)
    /\ OkEnvelope(TRUE)
    /\ outcome.err = ErrorAPITimeout

\* C8: a status-200 response whose envelope has ok=false makes every
\* operation return a nil value and an error whose message is the
\* envelope's error string (empty when the envelope has none).
C8_APIError ==
    (GotStatus(200) /\ OkEnvelope(FALSE)) =>
        /\ outcome.kind = "return"
        /\ outcome.value = <<>>
        /\ outcome.err.type = "errorString"
        /\ outcome.err.s = (IF "error" \in DOMAIN resp.body.members
                            THEN resp.body.members.error ELSE "")

C8_Witness ==
    /\ op = "GetQuote"
    /\ GotStatus(200)
    /\ OkEnvelope(FALSE)
    /\ outcome.err = ErrorsNew("boom")

\* an argument is blank: empty, or white space only
Blank(a) == \A k \in 1..Len(a) : IsSpace(a[k])
BlankArgument ==
    /\ pc # "ready"
    /\ \E k \in DOMAIN args \cap {"venue", "stock", "account"} : Blank(args[k])

\* C9 as stated: a blank venue, stock or account makes the call return an
\* InvalidArgument error, with no request issued.
C9_Claim ==
    BlankArgument =>
        /\ outcome.kind = "return"
        /\ outcome.err.type = "InvalidArgument"
        /\ requests = <<>>

\* the members an operation's success value is read from
PayloadKeys(o) ==
    CASE o = "ListStocks" -> {"symbols"}
      [] o = "GetOrderbook" -> {"bids", "asks", "ts"}
      [] o \in {"PlaceOrder", "GetOrder", "CancelOrder"} ->
            {"direction", "originalQty", "qty", "price", "orderType", "id",
             "account", "ts", "fills", "totalFilled", "open"}
      [] o = "GetQuote" ->
            {"bid", "bidSize", "bidDepth", "ask", "askSize", "askDepth", "last",
             "lastSize", "lastTrade", "quoteTime"}
      [] o \in {"GetAllOrders", "GetStockOrders"} -> {"orders"}
      [] OTHER -> {}

WireFillValue(f) == [Price |-> f.price, Quantity |-> f.qty, Timestamp |-> Time(f.ts)]
WireFillValues(fs) == [i \in 1..Len(fs) |-> WireFillValue(fs[i])]
WireEntryValues(es) ==
    [i \in 1..Len(es) |->
        [Price |-> es[i].price, Quantity |-> es[i].qty, IsBuy |-> es[i].isBuy]]
WireOrderValue(m, typeKey) ==
    [Direction |-> m.direction, OriginalQuantity |-> m.originalQty,
     Quantity |-> m.qty, Price |-> m.price, OrderType |-> m[typeKey],
     OrderID |-> m.id, Account |-> m.account, Timestamp |-> Time(m.ts),
     Fills |-> WireFillValues(m.fills), TotalFilled |-> m.totalFilled,
     Open |-> m.open]

\* the success value the envelope m stands for
EnvelopeValue(o, m) ==
    CASE o \in {"Ping", "PingVenue"} -> <<>>
      [] o = "ListStocks" ->
            <<[i \in 1..Len(m.symbols) |->
                [Name |-> m.symbols[i].name, Symbol |-> m.symbols[i].symbol]]>>
      [] o = "GetOrderbook" ->
            <<[Bids |-> WireEntryValues(m.bids), Asks |-> WireEntryValues(m.asks),
               Timestamp |-> Time(m.ts)]>>
      [] o \in {"PlaceOrder", "GetOrder", "CancelOrder"} ->
            <<WireOrderValue(m, "orderType")>>
      [] o = "GetQuote" ->
            <<[BidPrice |-> m.bid, BidSize |-> m.bidSize, BidDepth |-> m.bidDepth,
               AskPrice |-> m.ask, AskSize |-> m.askSize, AskDepth |-> m.askDepth,
               LastPrice |-> m.last, LastSize |-> m.lastSize,
               LastTradeTime |-> Time(m.lastTrade), QuoteTime |-> Time(m.quoteTime)]>>
      [] o \in {"GetAllOrders", "GetStockOrders"} ->
            <<[i \in 1..Len(m.orders) |-> WireOrderValue(m.orders[i], "type")]>>

\* C10: a status-200 response with ok=true yields a nil error and a success
\* value whose every field equals the envelope member it is decoded from,
\* lists in the order of the body.
C10_RoundTrip ==
    (GotStatus(200) /\ OkEnvelope(TRUE)
        /\ PayloadKeys(op) \subseteq DOMAIN resp.body.members) =>
        outcome = Return(EnvelopeValue(op, resp.body.members), NilErr)

C10_Witness ==
    /\ op = "CancelOrder"
    /\ GotStatus(200)
    /\ OkEnvelope(TRUE)
    /\ outcome.kind = "return"
    /\ outcome.err = NilErr
    /\ outcome.value # <<>>
    /\ outcome.value[1].Open = FALSE
    /\ outcome.value[1].OrderID = 12345
    /\ outcome.value[1].OriginalQuantity = 4625
    /\ outcome.value[1].Price = 5264
    /\ Len(outcome.value[1].Fills) = 2
    /\ outcome.value[1].Fills[1].Price = 5100
    /\ outcome.value[1].Fills[2].Price = 5050
AuthHeaderName == "X-Starfighter-Authorization"

\* C11 as stated: every request of an operation other than Ping carries the
\* header X-Starfighter-Authorization set to the client's API key.
C11_Claim ==
    (op # "Ping" /\ requests # <<>>) =>
        \A i \in 1..Len(requests) :
            /\ AuthHeaderName \in DOMAIN requests[i].header
            /\ requests[i].header[AuthHeaderName] = <<apiKey>>

\* C12: when the transport fails, the call returns a nil value and an error
\* that carries the transport's cause; no status is inspected, no body is
\* read or decoded, and the error is none of the typed ones nor the
\* envelope's.
C12_TransportError ==
    (resp.got = "error") =>
        /\ outcome.kind = "return"
        /\ outcome.value = <<>>
        /\ outcome.err.type = "url.Error"
        /\ outcome.err.cause = resp.cause
        /\ ~bodyRead
        /\ ~bodyClosed
        /\ respData = <<>>

C12_Witness ==
    /\ op = "GetOrder"
    /\ resp.got = "error"
    /\ Len(requests) = 1
    /\ outcome.err.type = "url.Error"
    /\ outcome.err.cause = "connection refused"
\* the failure of parsing a body that is not a JSON object
ParseFailure(body) ==
    CASE body.kind = "empty" -> "EOF"
      [] body.kind = "text" -> "SyntaxError"
      [] body.kind = "array" -> "UnmarshalTypeError"

Unclassified404 == {"GetOrder", "GetAllOrders", "GetStockOrders"}

DetectedFailure ==
    \/ resp.got = "error"
    \/ /\ resp.got = "response"
       /\ \/ resp.status \in SentinelRow(op)
          \/ resp.body.kind # "object"
          \/ OkEnvelope(FALSE)

\* C15: a call issues at most one request, and every failure it detects
\* (transport failure, sentinel status, decode failure, ok=false) comes back
\* as a non-nil error with no success value.
C15_NoRetryNoSwallow ==
    /\ Len(requests) <= 1
    /\ DetectedFailure =>
        /\ Len(requests) = 1
        /\ outcome.kind = "return"
        /\ outcome.err # NilErr
        /\ outcome.value = <<>>

C15_Witness ==
    /\ op = "ListStocks"
    /\ GotStatus(500)
    /\ OkEnvelope(FALSE)
    /\ Len(requests) = 1
    /\ outcome.value = <<>>
    /\ outcome.err.type = "errorString"
\* the response received, with its status replaced by 200
WithStatus200 == [resp EXCEPT !.status = 200]

OrderDirections == {"buy", "sell"}
OrderTypes == {"limit", "market", "fill-or-kill", "immediate-or-cancel"}

\* a PlaceOrder call that ran to its return with an order the exchange
\* defines as invalid
InvalidOrderPlaced ==
    /\ op = "PlaceOrder"
    /\ pc = "returned"
    /\ \/ args.quantity = 0
       \/ args.direction \notin OrderDirections
       \/ args.orderType \notin OrderTypes

BuildsRequest == {"PlaceOrder", "GetOrder", "CancelOrder", "GetAllOrders", "GetStockOrders"}

\* a call whose arguments pass the blank checks and whose URL, holding a
\* control character, makes http.NewRequest fail
ConstructionFails ==
    /\ op \in BuildsRequest
    /\ \A k \in DOMAIN args \cap {"venue", "stock", "account"} : ~Blank(args[k])
    /\ HasCTL(TrimSpace(args.venue))

\* C19 as stated: when the construction of the request fails, PlaceOrder,
\* GetOrder, CancelOrder, GetAllOrders and GetStockOrders return the
\* construction error, without touching the request and without issuing any
\* network request.
C19_Claim ==
    ConstructionFails =>
        /\ outcome = Return(<<>>, ParseError)
        /\ requests = <<>>
Symbols == {"venue", "stock", "account"}

\* v is arg without any of the white space at its two ends
TrimmedOf(arg, v) ==
    /\ StripsTo(arg, v)
    /\ v # <<>> => (~IsSpace(v[1]) /\ ~IsSpace(v[Len(v)]))

\* C20: venue, stock and account are trimmed before any use: a call with an
\* argument made of white space only is rejected with no request issued;
\* otherwise the path of the request, the body of PlaceOrder's request and
\* the symbols carried by ErrorVenueNotFound and ErrorStockNotFound hold the
\* arguments without their surrounding white space.
C20_Trimmed ==
    pc # "ready" =>
        IF \E k \in DOMAIN args \cap Symbols : Blank(args[k])
        THEN /\ outcome.kind = "panic"
             /\ outcome.value.type = "errorString"
             /\ requests = <<>>
        ELSE /\ \A i \in 1..Len(requests) :
                  \A k \in DOMAIN requests[i].url.params \cap Symbols :
                      TrimmedOf(args[k], requests[i].url.params[k])
             /\ (op = "PlaceOrder" /\ requests # <<>>) =>
                  \A k \in Symbols : TrimmedOf(args[k], requests[1].body[1][k])
             /\ (outcome.kind = "return"
                   /\ outcome.err.type \in {"ErrorVenueNotFound", "ErrorStockNotFound"}) =>
                  TrimmedOf(args.venue, outcome.err.VenueSymbol)
             /\ (outcome.kind = "return" /\ outcome.err.type = "ErrorStockNotFound") =>
                  TrimmedOf(args.stock, outcome.err.StockSymbol)

C20_Witness ==
    /\ op = "PlaceOrder"
    /\ args.venue = <<" ", "V", "\t">>
    /\ args.stock = <<" ", "S", " ">>
    /\ args.account = <<"A", " ">>
    /\ Len(requests) = 1
    /\ requests[1].url.params = [venue |-> <<"V">>, stock |-> <<"S">>]
    /\ requests[1].body[1].account = <<"A">>
    /\ outcome = Return(<<>>, ErrorStockNotFound(<<"V">>, <<"S">>))

C20_BlankWitness ==
    /\ op = "GetQuote"
    /\ args.venue = <<"V">>
    /\ args.stock = <<" ">>
    /\ outcome.kind = "panic"
    /\ requests = <<>>
\* the frame call p leaves when it is the only call on the client
CallAlone(p) == CallFrame(op[p], args[p], apiKey, resp[p])

IndependentCalls ==
    \A p \in Procs :
        CASE pc[p] = "ready" ->
                /\ requests[p] = <<>>
                /\ respData[p] = <<>>
                /\ outcome[p] = NoOutcome
          [] pc[p] = "waiting" ->
                /\ requests[p] = BeforeTransport(op[p], args[p], apiKey).requests
                /\ Len(requests[p]) = 1
                /\ respData[p] = <<>>
                /\ outcome[p] = NoOutcome
          [] OTHER ->
                /\ requests[p] = CallAlone(p).requests
                /\ bodyRead[p] = CallAlone(p).bodyRead
                /\ bodyClosed[p] = CallAlone(p).bodyClosed
                /\ respData[p] = CallAlone(p).respData
                /\ outcome[p] = CallAlone(p).outcome

\* C16: calls issued concurrently on one client are independent: no step of
\* any call changes a field of the client, and in every interleaving the
\* request, the decoded data and the outcome of each call are those of the
\* same call run alone with the same arguments and the same response.
C16_Independent == []IndependentCalls /\ [][apiKey' = apiKey]_vars

C16_Witness ==
    /\ pc[1] = "waiting"
    /\ op[1] = "ListStocks"
    /\ pc[2] = "returned"
    /\ op[2] = "PlaceOrder"
    /\ resp[2].got = "response"
    /\ outcome[2].err = NilErr
    /\ outcome[2].value # <<>>
\* the response body is a JSON object that has no ok member
OkMissing ==
    /\ resp.got = "response"
    /\ resp.body.kind = "object"
    /\ "ok" \notin DOMAIN resp.body.members

\* the response received, with ok=false added to its body
WithOkFalse ==
    [resp EXCEPT !.body = Json(("ok" :> FALSE) @@ resp.body.members)]

\* C21: a decodable body without the ok field is treated exactly like the
\* same body with ok=false: the call never returns a success value, even
\* when the payload fields are present, and when the body is decoded the
\* error's message is the body's error string (empty when error is absent).
C21_OkAbsent ==
    OkMissing =>
        /\ outcome = CallFrame(op, args, apiKey, WithOkFalse).outcome
        /\ outcome.kind = "return"
        /\ outcome.value = <<>>
        /\ outcome.err # NilErr
        /\ bodyRead =>
            /\ respData.OK = FALSE
            /\ outcome.err = ErrorsNew(IF "error" \in DOMAIN resp.body.members
                                       THEN resp.body.members.error ELSE "")

C21_Witness ==
    /\ op = "ListStocks"
    /\ GotStatus(200)
    /\ OkMissing
    /\ "symbols" \in DOMAIN resp.body.members
    /\ Len(resp.body.members.symbols) > 0
    /\ Len(respData.Stocks) > 0
    /\ outcome = Return(<<>>, ErrorsNew(""))
====
